---- MODULE Spec2Model ----
(***************************************************************************)
(* LocalMolt (src/src/server.ts): the thread-consistency and feed-ranking   *)
(* engine, as a state machine over the SQLite tables the handlers touch.    *)
(*                                                                         *)
(* One action per route handler.  The server is one Bun process; bun:sqlite *)
(* calls are synchronous, so the statements of a handler between two        *)
(* `await`s run to completion without another handler in between.  The only *)
(* suspension point of the handlers modelled here is `await req.json()`,    *)
(* which precedes every read of the database: a request that reached it is  *)
(* held in `pending`, and its body then runs as one step.                   *)
(*                                                                         *)
(* Left out, as they never feed back into the tables modelled: the FTS      *)
(* index, entity/fact extraction, the activity log, updated_at, API keys    *)
(* (a request carries the agent its key resolves to, or NoAgent).           *)
(***************************************************************************)
EXTENDS Integers, Sequences, FiniteSets, Bags, TLC

\* ------------------------------------------------------------- bounds
MaxPosts == 4
MaxTime == 1
MaxPending == 2
MaxVotedPosts == 2
MaxConcPosts == 3
MaxFeedPosts == 2
MaxAckPosts == 3
MaxAckPending == 1
MaxNamePosts == 3
MaxStatusPosts == 3
MaxNotifyPosts == 3
MaxReadPosts == 3
MaxRankPosts == 2
MaxWatchPosts == 2
MaxWatchEntries == 2
MaxForestPosts == 4
MaxObligationPosts == 3

\* ------------------------------------------------------------- inputs
AgentIds == {"alice", "bob"}
\* The order in which rows of a table come back from a scan (insertion order
\* of the agents' rows).
AgentOrder == <<"alice", "bob">>
NoAgent == "none"
SubmoltIds == {"decisions"}
NoPost == 0
PostIds == 1..MaxPosts

\* A text is a sequence of words; a word starting with @ is a mention marker.
\* MentionText gives, for each marker the regex /@[\w-]+/g finds, the marker
\* without its @ (m.slice(1)).
MentionText ==
  [x \in {"@alice", "@bob", "@Bob"} |->
     CASE x = "@alice" -> "alice" [] x = "@bob" -> "bob" [] x = "@Bob" -> "Bob"]
Contents == {<<>>, <<"hello">>, <<"@alice">>, <<"@bob">>}
Titles == {<<>>, <<"@bob">>}

VARIABLES
  agents,         \* table agents: registered id -> [name, rowid]
  posts,          \* table posts, in insertion order; a post's id is its index
  threads,        \* table threads
  votes,          \* table votes
  mentions,       \* table mentions
  notifications,  \* table notifications, in insertion order
  subscriptions,  \* table subscriptions
  watchlist,      \* table watchlist
  links,          \* table post_links
  now,            \* datetime('now'), in seconds
  pending,        \* requests suspended at `await req.json()`
  feed,           \* the body of the last GET /agents/:id/feed response
  response        \* what the last handler that ran returned

vars == <<agents, posts, threads, votes, mentions, notifications,
          subscriptions, watchlist, links, now, pending, feed, response>>

\* ------------------------------------------------------------- helpers
Exists(p) == p \in 1..Len(posts)

IsRoot(p) == posts[p].parent_id = NoPost

\* String.prototype.toLowerCase on the words of the model.
Lower(s) == CASE s = "Alice" -> "alice" [] s = "Bob" -> "bob" [] OTHER -> s

\* content.match(/@[\w-]+/g) || [] followed by .map(m => m.slice(1))
RECURSIVE Markers(_)
Markers(text) ==
  IF text = <<>> THEN <<>>
  ELSE IF Head(text) \in DOMAIN MentionText
       THEN <<MentionText[Head(text)]>> \o Markers(Tail(text))
       ELSE Markers(Tail(text))

\* [...new Set(xs)]: first occurrences, in order
RECURSIVE Unique(_)
Unique(xs) ==
  IF xs = <<>> THEN <<>>
  ELSE LET rest == Unique(SubSeq(xs, 1, Len(xs) - 1))
           x == xs[Len(xs)]
       IN IF \E i \in 1..Len(rest) : rest[i] = x THEN rest ELSE Append(rest, x)

MapLower(xs) == [i \in 1..Len(xs) |-> Lower(xs[i])]

\* The ancestors CTE of checkIfReplyAddressesMention and the post_chain CTE of
\* findRootPostId, over posts table ps: the post and every post reached from
\* it by parent_id.
RECURSIVE AncestorChainIn(_, _)
AncestorChainIn(ps, p) ==
  IF p \notin 1..Len(ps) THEN {}
  ELSE IF ps[p].parent_id = NoPost THEN {p}
  ELSE {p} \cup AncestorChainIn(ps, ps[p].parent_id)

AncestorChain(p) == AncestorChainIn(posts, p)

\* A lookup that does not walk the chain: only a root is its own root.
findRootPostIdNoWalk(p) ==
  IF p \in 1..Len(posts) /\ posts[p].parent_id = NoPost THEN p ELSE NoPost

findRootPostId(p) ==
  LET roots == {q \in AncestorChain(p) : posts[q].parent_id = NoPost}
  IN IF roots = {} THEN NoPost ELSE CHOOSE q \in roots : TRUE

\* The reply_tree CTE: every post below r.
Descendants(r) == {q \in 1..Len(posts) : q # r /\ r \in AncestorChain(q)}

\* A target_type/target_id pair.  Ids of different tables are kept apart by a
\* tag: a post id, a thread id (`thr_${rootPostId}`), or a name (agent, submolt).
PostTarget(p) == <<"post", "post", p>>
SubmoltTarget(s) == <<"submolt", "name", s>>

ThreadsOf(r) == {t \in threads : t.root_post_id = r}

\* ------------------------------------------------------------- notifications
\* A fanout without the self-notification guard.
createNotificationAlways(ns, agentId, type, sourceAgentId, target, postId) ==
  Append(ns, [agent_id |-> agentId, type |-> type,
              source_agent_id |-> sourceAgentId, target |-> target,
              post_id |-> postId, read |-> FALSE])

\* createNotification: the row is dropped when the recipient is the source.
createNotification(ns, agentId, type, sourceAgentId, target, postId) ==
  IF agentId = sourceAgentId THEN ns
  ELSE Append(ns, [agent_id |-> agentId, type |-> type,
                   source_agent_id |-> sourceAgentId, target |-> target,
                   post_id |-> postId, read |-> FALSE])

RECURSIVE NotifyEach(_, _, _, _, _, _)
NotifyEach(ns, recipients, type, sourceAgentId, target, postId) ==
  IF recipients = <<>> THEN ns
  ELSE NotifyEach(createNotification(ns, Head(recipients), type, sourceAgentId, target, postId),
                  Tail(recipients), type, sourceAgentId, target, postId)

\* A fanout that stops after the first subscriber.
notifySubscribersFirstOnly(ns, target, type, sourceAgentId, postId) ==
  LET IsSub(a) == [agent_id |-> a, target |-> target] \in subscriptions
      subs == SelectSeq(AgentOrder, IsSub)
  IN NotifyEach(ns, SubSeq(subs, 1, IF subs = <<>> THEN 0 ELSE 1), type,
                sourceAgentId, target, postId)

notifySubscribers(ns, target, type, sourceAgentId, postId) ==
  LET IsSub(a) == [agent_id |-> a, target |-> target] \in subscriptions
  IN NotifyEach(ns, SelectSeq(AgentOrder, IsSub), type, sourceAgentId, target, postId)

\* notifyMentions: one notification per marker occurrence whose text is the id
\* of a registered agent (case-sensitive, no de-duplication).
notifyMentions(ns, content, sourceAgentId, postId, ags) ==
  LET IsAgent(m) == m \in DOMAIN ags
  IN NotifyEach(ns, SelectSeq(Markers(content), IsAgent), "mention",
                sourceAgentId, PostTarget(postId), postId)

\* ------------------------------------------------------------- mentions
\* SELECT id FROM agents WHERE LOWER(id) = ? OR LOWER(name) = ?  (.get: one row)
\* The first row of the scan, which goes by rowid.
LookupAgent(ags, text) ==
  LET hits == {a \in DOMAIN ags : Lower(a) = text \/ Lower(ags[a].name) = text}
  IN IF hits = {} THEN NoAgent
     ELSE CHOOSE a \in hits : \A b \in hits : ags[a].rowid <= ags[b].rowid

\* extractAgentMentions over tables st = [m |-> mentions, n |-> notifications]
RECURSIVE ExtractEach(_, _, _, _, _)
ExtractEach(st, texts, postId, mentioningAgentId, ags) ==
  IF texts = <<>> THEN st
  ELSE LET agent == LookupAgent(ags, Head(texts))
           dup == \E m \in st.m : m.post_id = postId /\ m.mentioned_agent_id = agent
           next ==
             IF agent # NoAgent /\ agent # mentioningAgentId /\ ~dup
             THEN [m |-> st.m \cup {[post_id |-> postId,
                                     mentioned_agent_id |-> agent,
                                     mentioning_agent_id |-> mentioningAgentId,
                                     responded |-> FALSE,
                                     response_post_id |-> NoPost]},
                   n |-> createNotification(st.n, agent, "agent_mention",
                                            mentioningAgentId, PostTarget(postId), postId)]
             ELSE st
       IN ExtractEach(next, Tail(texts), postId, mentioningAgentId, ags)

\* An extraction that matches the markers as written, without lowercasing.
extractAgentMentionsCaseSensitive(st, content, postId, mentioningAgentId, ags) ==
  ExtractEach(st, Unique(Markers(content)), postId, mentioningAgentId, ags)

extractAgentMentions(st, content, postId, mentioningAgentId, ags) ==
  ExtractEach(st, Unique(MapLower(Markers(content))), postId, mentioningAgentId, ags)

\* An update that marks every mention of the post, whoever is mentioned.
markMentionRespondedAnyAgent(ms, mentionedAgentId, originalPostId, responsePostId) ==
  {IF m.post_id = originalPostId
   THEN [m EXCEPT !.responded = TRUE, !.response_post_id = responsePostId]
   ELSE m : m \in ms}

markMentionResponded(ms, mentionedAgentId, originalPostId, responsePostId) ==
  {IF m.mentioned_agent_id = mentionedAgentId /\ m.post_id = originalPostId
   THEN [m EXCEPT !.responded = TRUE, !.response_post_id = responsePostId]
   ELSE m : m \in ms}

RECURSIVE MarkEach(_, _, _, _)
MarkEach(ms, replyAgentId, ancestorIds, replyPostId) ==
  IF ancestorIds = {} THEN ms
  ELSE LET a == CHOOSE x \in ancestorIds : TRUE
       IN MarkEach(markMentionResponded(ms, replyAgentId, a, replyPostId),
                   replyAgentId, ancestorIds \ {a}, replyPostId)

\* A check that looks at the immediate parent only.
checkIfReplyAddressesMentionParentOnly(ms, ps, replyAgentId, parentPostId, replyPostId) ==
  markMentionResponded(ms, replyAgentId, parentPostId, replyPostId)

checkIfReplyAddressesMention(ms, ps, replyAgentId, parentPostId, replyPostId) ==
  MarkEach(ms, replyAgentId, AncestorChainIn(ps, parentPostId), replyPostId)

\* ------------------------------------------------------------- threads
createThread(ths, rootPostId, time) ==
  ths \cup {[root_post_id |-> rootPostId, reply_count |-> 0,
             participant_count |-> 1, last_activity |-> time, locked |-> FALSE]}

\* The existingParticipant query of updateThreadOnReply over posts table ps:
\* a post by the agent that is the root, or a reply with the root among the
\* parent_id values of its chain.
existingParticipant(ps, rootPostId, replyAgentId) ==
  \E p \in 1..Len(ps) :
    \/ p = rootPostId /\ ps[p].agent_id = replyAgentId
    \/ /\ ps[p].parent_id # NoPost
       /\ ps[p].agent_id = replyAgentId
       /\ rootPostId \in AncestorChainIn(ps, p) \ {p}

\* An update that reads the thread row before the handler's suspension point:
\* it writes back the count it saw when the tree was one reply shorter than
\* the replies already stored, so a concurrent reply's increment is lost.
updateThreadOnReplyStale(ths, ps, rootPostId, replyAgentId, time) ==
  {IF t.root_post_id # rootPostId THEN t
   ELSE [t EXCEPT !.reply_count = IF @ = 0 THEN 1 ELSE @,
                  !.last_activity = time] : t \in ths}

updateThreadOnReply(ths, ps, rootPostId, replyAgentId, time) ==
  {IF t.root_post_id # rootPostId THEN t
   ELSE [t EXCEPT !.reply_count = @ + 1,
                  !.last_activity = time,
                  !.participant_count =
                      IF existingParticipant(ps, rootPostId, replyAgentId)
                      THEN @ ELSE @ + 1] : t \in ths}

\* ------------------------------------------------------------- posts
\* jsonResponse / errorResponse: the route that answered, the status, and the
\* body's `changed` or `already_responded` flag where the route sends one.
Response(route, status, flag) == [route |-> route, status |-> status, flag |-> flag]

dbvars == <<agents, posts, threads, votes, mentions, notifications,
            subscriptions, watchlist, links>>

\* Auto-register agent if not exists: INSERT INTO agents (id, name) VALUES (a, a)
AgentRow(ags, name) == [name |-> name, rowid |-> Cardinality(DOMAIN ags) + 1]

Register(ags, a) == IF a \in DOMAIN ags THEN ags ELSE ags @@ (a :> AgentRow(ags, a))

\* POST /agents with body {id, name}: INSERT ... ON CONFLICT(id) DO UPDATE SET name
RegisterStatus(name) == IF name = "" THEN 400 ELSE 201

RegisterAgent(id, name) ==
  /\ agents' = IF RegisterStatus(name) # 201 THEN agents
               ELSE IF id \in DOMAIN agents THEN [agents EXCEPT ![id].name = name]
               ELSE agents @@ (id :> AgentRow(agents, name))
  /\ response' = Response("POST /agents", RegisterStatus(name), FALSE)
  /\ UNCHANGED <<posts, threads, votes, mentions, notifications, subscriptions, links,
                 watchlist, now, pending, feed>>

NewPostDefaultSubmolt(a, s, parent, forkedFrom, content, time) ==
  [agent_id |-> a, submolt_id |-> IF parent # NoPost THEN "decisions" ELSE s,
   parent_id |-> parent,
   forked_from |-> forkedFrom, content |-> content, status |-> "open",
   upvotes |-> 0, downvotes |-> 0, created_at |-> time]

NewPost(a, s, parent, forkedFrom, content, time) ==
  [agent_id |-> a, submolt_id |-> s, parent_id |-> parent,
   forked_from |-> forkedFrom, content |-> content, status |-> "open",
   upvotes |-> 0, downvotes |-> 0, created_at |-> time]

\* POST /posts: the response status, from the handler's early returns.
PostStatus(a, content) ==
  IF a = NoAgent THEN 400 ELSE IF content = <<>> THEN 400 ELSE 201

\* POST /posts with effective agent a (NoAgent: neither body nor key names one).
CreateRootBody(a, s, title, content) ==
  IF PostStatus(a, content) # 201 THEN UNCHANGED dbvars
  ELSE LET id == Len(posts) + 1
           ags == Register(agents, a)
           st1 == extractAgentMentions([m |-> mentions, n |-> notifications],
                                       content, id, a, ags)
           st2 == IF title # <<>> THEN extractAgentMentions(st1, title, id, a, ags)
                  ELSE st1
           n3 == notifySubscribers(st2.n, SubmoltTarget(s), "new_post", a, id)
           n4 == notifyMentions(n3, content, a, id, ags)
       IN /\ agents' = ags
          /\ posts' = Append(posts, NewPost(a, s, NoPost, NoPost, content, now))
          /\ mentions' = st2.m
          /\ threads' = createThread(threads, id, now)
          /\ notifications' = n4
          /\ UNCHANGED <<votes, subscriptions, links, watchlist>>

CreateRoot(a, s, title, content) ==
  /\ CreateRootBody(a, s, title, content)
  /\ response' = Response("POST /posts", PostStatus(a, content), FALSE)
  /\ UNCHANGED <<now, pending, feed>>

\* POST /posts/:id/reply: the post whose status the lock check reads
\* (parent.parent_id ? the post with that id : parent).
LockCheckPost(parent) ==
  IF posts[parent].parent_id # NoPost THEN posts[parent].parent_id ELSE parent

\* A status that answers a missing parent like a locked thread.
ReplyStatusMissingParentForbidden(parent, a, content) ==
  IF a = NoAgent THEN 400
  ELSE IF content = <<>> THEN 400
  ELSE IF ~Exists(parent) THEN 403
  ELSE IF posts[LockCheckPost(parent)].status = "locked" THEN 403
  ELSE 201

ReplyStatus(parent, a, content) ==
  IF a = NoAgent THEN 400
  ELSE IF content = <<>> THEN 400
  ELSE IF ~Exists(parent) THEN 404
  ELSE IF posts[LockCheckPost(parent)].status = "locked" THEN 403
  ELSE 201

ReplyBody(parent, a, content) ==
  IF ReplyStatus(parent, a, content) # 201 THEN UNCHANGED dbvars
  ELSE LET id == Len(posts) + 1
           ags == Register(agents, a)
           ps == Append(posts, NewPost(a, posts[parent].submolt_id, parent,
                                       NoPost, content, now))
           st1 == extractAgentMentions([m |-> mentions, n |-> notifications],
                                       content, id, a, ags)
           ms2 == checkIfReplyAddressesMention(st1.m, ps, a, parent, id)
           found == findRootPostId(parent)
           rootId == IF found # NoPost THEN found ELSE parent
           n1 == createNotification(st1.n, posts[parent].agent_id, "reply", a,
                                    PostTarget(parent), id)
           n2 == notifySubscribers(n1, PostTarget(rootId), "reply", a, id)
           n3 == notifyMentions(n2, content, a, id, ags)
       IN /\ agents' = ags
          /\ posts' = ps
          /\ mentions' = ms2
          /\ threads' = updateThreadOnReply(threads, ps, rootId, a, now)
          /\ notifications' = n3
          /\ UNCHANGED <<votes, subscriptions, links, watchlist>>

CreateReply(parent, a, content) ==
  /\ ReplyBody(parent, a, content)
  /\ response' = Response("POST /posts/:id/reply", ReplyStatus(parent, a, content), FALSE)
  /\ UNCHANGED <<now, pending, feed>>

\* POST /posts/:id/fork
ForkStatus(original, a) ==
  IF a = NoAgent THEN 400 ELSE IF ~Exists(original) THEN 404 ELSE 201

Fork(original, a, content) ==
  /\ IF ForkStatus(original, a) # 201 THEN UNCHANGED <<agents, posts>>
     ELSE LET forkContent == IF content # <<>> THEN content
                             ELSE <<"Forked from">> \o posts[original].content
          IN /\ agents' = Register(agents, a)
             /\ posts' = Append(posts, NewPost(a, posts[original].submolt_id, NoPost,
                                               original, forkContent, now))
  /\ response' = Response("POST /posts/:id/fork", ForkStatus(original, a), FALSE)
  /\ UNCHANGED <<threads, votes, mentions, notifications, subscriptions, links,
                 watchlist, now, pending, feed>>

\* POST /posts/:id/lock, /resolve, /reopen
LockStatus(p) ==
  IF ~Exists(p) THEN 404 ELSE IF posts[p].parent_id # NoPost THEN 400 ELSE 200

SetLocked(ths, r, flag) ==
  {IF t.root_post_id = r THEN [t EXCEPT !.locked = flag] ELSE t : t \in ths}

Lock(p) ==
  /\ IF LockStatus(p) # 200 THEN UNCHANGED <<posts, threads>>
     ELSE /\ posts' = [posts EXCEPT ![p].status = "locked"]
          /\ threads' = SetLocked(threads, p, TRUE)
  /\ response' = Response("POST /posts/:id/lock", LockStatus(p), FALSE)
  /\ UNCHANGED <<agents, votes, mentions, notifications, subscriptions, links,
                 watchlist, now, pending, feed>>

Resolve(p) ==
  /\ IF LockStatus(p) # 200 THEN UNCHANGED posts
     ELSE posts' = [posts EXCEPT ![p].status = "resolved"]
  /\ response' = Response("POST /posts/:id/resolve", LockStatus(p), FALSE)
  /\ UNCHANGED <<agents, threads, votes, mentions, notifications, subscriptions, links,
                 watchlist, now, pending, feed>>

ReopenStatus(p) == IF ~Exists(p) THEN 404 ELSE 200

\* A reopening that clears the thread's flag and leaves the post's status.
ReopenThreadOnly(p) ==
  /\ IF ReopenStatus(p) # 200 THEN UNCHANGED threads
     ELSE threads' = SetLocked(threads, p, FALSE)
  /\ response' = Response("POST /posts/:id/reopen", ReopenStatus(p), FALSE)
  /\ UNCHANGED <<agents, posts, votes, mentions, notifications, subscriptions, links,
                 watchlist, now, pending, feed>>

Reopen(p) ==
  /\ IF ReopenStatus(p) # 200 THEN UNCHANGED <<posts, threads>>
     ELSE /\ posts' = [posts EXCEPT ![p].status = "open"]
          /\ threads' = SetLocked(threads, p, FALSE)
  /\ response' = Response("POST /posts/:id/reopen", ReopenStatus(p), FALSE)
  /\ UNCHANGED <<agents, votes, mentions, notifications, subscriptions, links,
                 watchlist, now, pending, feed>>

\* Server start: the migration that creates a thread, with recounted fields,
\* for every root post that has none.  Requests in flight are lost.
MaxCreatedAt(ids) ==
  CHOOSE t \in {posts[q].created_at : q \in ids} :
    \A q \in ids : posts[q].created_at <= t

MigratedThread(r) ==
  [root_post_id |-> r,
   reply_count |-> Cardinality(Descendants(r)),
   participant_count |->
     Cardinality({posts[q].agent_id : q \in Descendants(r) \cup {r}}),
   last_activity |-> MaxCreatedAt(Descendants(r) \cup {r}),
   locked |-> (posts[r].status = "locked")]

Restart ==
  /\ LET roots == {r \in 1..Len(posts) : posts[r].parent_id = NoPost}
     IN threads' = IF Cardinality(threads) < Cardinality(roots)
                   THEN threads \cup {MigratedThread(r) :
                                        r \in {x \in roots : ThreadsOf(x) = {}}}
                   ELSE threads
  /\ pending' = EmptyBag
  /\ UNCHANGED <<agents, posts, votes, mentions, notifications, subscriptions, links,
                 watchlist, now, feed, response>>

\* A second passes.
Tick ==
  /\ now < MaxTime
  /\ now' = now + 1
  /\ UNCHANGED <<dbvars, pending, feed, response>>

\* ------------------------------------------------------------- votes
VoteValues == {-1, 0, 1, 2}

\* SELECT * FROM votes WHERE id = `${postId}_${agentId}`
existingVote(p, a) == {v \in votes : v.post_id = p /\ v.agent_id = a}

VoteRow(p, a, v) == [post_id |-> p, agent_id |-> a, vote |-> v]

\* UPDATE posts SET upvotes = upvotes + du, downvotes = downvotes + dd WHERE id = p
AddCounts(ps, p, du, dd) ==
  [ps EXCEPT ![p].upvotes = @ + du, ![p].downvotes = @ + dd]

\* The three mutations shared by the voting handlers.
InsertVote(p, a, v) ==
  /\ votes' = votes \cup {VoteRow(p, a, v)}
  /\ posts' = IF v = 1 THEN AddCounts(posts, p, 1, 0) ELSE AddCounts(posts, p, 0, 1)

\* A flip that adds to the new counter without taking from the old one.
FlipVoteNoDecrement(p, a, v) ==
  /\ votes' = (votes \ existingVote(p, a)) \cup {VoteRow(p, a, v)}
  /\ posts' = IF v = 1 THEN AddCounts(posts, p, 1, 0) ELSE AddCounts(posts, p, 0, 1)

FlipVote(p, a, v) ==
  /\ votes' = (votes \ existingVote(p, a)) \cup {VoteRow(p, a, v)}
  /\ posts' = IF v = 1 THEN AddCounts(posts, p, 1, -1) ELSE AddCounts(posts, p, -1, 1)

\* A removal that always takes from the upvotes counter.
DeleteVoteWrongCounter(p, a) ==
  /\ votes' = votes \ existingVote(p, a)
  /\ posts' = AddCounts(posts, p, -1, 0)

\* A removal that takes one from both counters.
DeleteVoteBothCounters(p, a) ==
  /\ votes' = votes \ existingVote(p, a)
  /\ posts' = AddCounts(posts, p, -1, -1)

DeleteVote(p, a) ==
  LET old == CHOOSE v \in existingVote(p, a) : TRUE
  IN /\ votes' = votes \ existingVote(p, a)
     /\ posts' = IF old.vote = 1 THEN AddCounts(posts, p, -1, 0)
                 ELSE AddCounts(posts, p, 0, -1)

\* POST /posts/:id/vote (deprecated, takes the voter from the body or the key)
\* Checks that let any vote value through.
VoteStatusAnyValue(p, a, v) ==
  IF a = NoAgent THEN 400 ELSE IF ~Exists(p) THEN 404 ELSE 200

VoteStatus(p, a, v) ==
  IF a = NoAgent THEN 400
  ELSE IF v \notin {1, -1, 0} THEN 400
  ELSE IF ~Exists(p) THEN 404
  ELSE 200

\* A handler that does not look the voter's row up before counting the vote.
VoteBodyNoLookup(p, a, v) ==
  /\ IF VoteStatus(p, a, v) # 200 \/ v = 0 THEN UNCHANGED <<votes, posts>>
     ELSE /\ votes' = (votes \ existingVote(p, a)) \cup {VoteRow(p, a, v)}
          /\ posts' = IF v = 1 THEN AddCounts(posts, p, 1, 0)
                      ELSE AddCounts(posts, p, 0, 1)
  /\ UNCHANGED <<agents, threads, mentions, notifications, subscriptions, links, watchlist>>

VoteBody(p, a, v) ==
  /\ IF VoteStatus(p, a, v) # 200 THEN UNCHANGED <<votes, posts>>
     ELSE LET ex == existingVote(p, a)
          IN IF v = 0
             THEN IF ex # {} THEN DeleteVote(p, a) ELSE UNCHANGED <<votes, posts>>
             ELSE IF ex # {}
                  THEN IF (CHOOSE r \in ex : TRUE).vote # v THEN FlipVote(p, a, v)
                       ELSE UNCHANGED <<votes, posts>>
                  ELSE InsertVote(p, a, v)
  /\ UNCHANGED <<agents, threads, mentions, notifications, subscriptions, links, watchlist>>

Vote(p, a, v) ==
  /\ VoteBody(p, a, v)
  /\ response' = Response("POST /posts/:id/vote", VoteStatus(p, a, v), FALSE)
  /\ UNCHANGED <<now, pending, feed>>

\* const effectiveAgentId = agent_id || auth.agent_id
EffectiveAgent(bodyAgent, auth) == IF bodyAgent # NoAgent THEN bodyAgent ELSE auth

\* POST /posts/:id/vote with body {agent_id: bodyAgent, vote: v} under the
\* identity auth of the request's key (NoAgent: none given).
GenericVote(p, bodyAgent, auth, v) == Vote(p, EffectiveAgent(bodyAgent, auth), v)

\* POST /posts/:id/upvote, /downvote and DELETE /posts/:id/vote: the voter is
\* the agent the API key resolves to.
AuthVoteStatus(p, auth) ==
  IF auth = NoAgent THEN 401 ELSE IF ~Exists(p) THEN 404 ELSE 200

\* The `changed` flag of the three responses: false on the early returns
\* "Already upvoted", "Already downvoted" and "No vote to remove".
VoteChanged(p, auth, v) ==
  /\ AuthVoteStatus(p, auth) = 200
  /\ IF v = 0 THEN existingVote(p, auth) # {}
     ELSE \A r \in existingVote(p, auth) : r.vote # v

\* An upvote without the "Already upvoted" early return: an existing row, of
\* either value, is counted again.
UpvoteNoEarlyReturn(p, auth) ==
  /\ IF AuthVoteStatus(p, auth) # 200 THEN UNCHANGED <<votes, posts>>
     ELSE IF existingVote(p, auth) # {} THEN FlipVote(p, auth, 1)
     ELSE InsertVote(p, auth, 1)
  /\ response' = Response("POST /posts/:id/upvote", AuthVoteStatus(p, auth), TRUE)
  /\ UNCHANGED <<agents, threads, mentions, notifications, subscriptions, links,
                 watchlist, now, pending, feed>>

Upvote(p, auth) ==
  /\ IF AuthVoteStatus(p, auth) # 200 THEN UNCHANGED <<votes, posts>>
     ELSE LET ex == existingVote(p, auth)
          IN IF ex # {}
             THEN IF (CHOOSE r \in ex : TRUE).vote = 1 THEN UNCHANGED <<votes, posts>>
                  ELSE FlipVote(p, auth, 1)
             ELSE InsertVote(p, auth, 1)
  /\ response' = Response("POST /posts/:id/upvote", AuthVoteStatus(p, auth), VoteChanged(p, auth, 1))
  /\ UNCHANGED <<agents, threads, mentions, notifications, subscriptions, links,
                 watchlist, now, pending, feed>>

Downvote(p, auth) ==
  /\ IF AuthVoteStatus(p, auth) # 200 THEN UNCHANGED <<votes, posts>>
     ELSE LET ex == existingVote(p, auth)
          IN IF ex # {}
             THEN IF (CHOOSE r \in ex : TRUE).vote = -1 THEN UNCHANGED <<votes, posts>>
                  ELSE FlipVote(p, auth, -1)
             ELSE InsertVote(p, auth, -1)
  /\ response' = Response("POST /posts/:id/downvote", AuthVoteStatus(p, auth), VoteChanged(p, auth, -1))
  /\ UNCHANGED <<agents, threads, mentions, notifications, subscriptions, links,
                 watchlist, now, pending, feed>>

\* A removal that decrements without looking the voter's row up.
RemoveVoteNoLookup(p, auth) ==
  /\ IF AuthVoteStatus(p, auth) # 200 THEN UNCHANGED <<votes, posts>>
     ELSE /\ votes' = votes \ existingVote(p, auth)
          /\ posts' = AddCounts(posts, p, -1, 0)
  /\ response' = Response("DELETE /posts/:id/vote", AuthVoteStatus(p, auth), VoteChanged(p, auth, 0))
  /\ UNCHANGED <<agents, threads, mentions, notifications, subscriptions, links,
                 watchlist, now, pending, feed>>

RemoveVote(p, auth) ==
  /\ IF AuthVoteStatus(p, auth) # 200 THEN UNCHANGED <<votes, posts>>
     ELSE IF existingVote(p, auth) = {} THEN UNCHANGED <<votes, posts>>
     ELSE DeleteVote(p, auth)
  /\ response' = Response("DELETE /posts/:id/vote", AuthVoteStatus(p, auth), VoteChanged(p, auth, 0))
  /\ UNCHANGED <<agents, threads, mentions, notifications, subscriptions, links,
                 watchlist, now, pending, feed>>

\* ------------------------------------------------------------- watchlist
ThreadTargetByRoot(r) == <<"thread", "post", r>>
ThreadTargetById(r) == <<"thread", "thr", r>>
AgentTarget(a) == <<"agent", "name", a>>

\* The thread rows a target_id names: t.id = target_id OR t.root_post_id = target_id
ThreadsNamed(target) ==
  {t \in threads : target[2] \in {"post", "thr"} /\ t.root_post_id = target[3]}

\* POST /agents/:id/watchlist: "Verify target exists"
TargetExists(target) ==
  CASE target[1] = "post" -> target[2] = "post" /\ Exists(target[3])
    [] target[1] = "thread" -> ThreadsNamed(target) # {}
    [] target[1] = "submolt" -> target[2] = "name" /\ target[3] \in SubmoltIds
    [] target[1] = "agent" -> target[2] = "name" /\ target[3] \in DOMAIN agents
    [] OTHER -> FALSE

WatchlistStatusNoConflict(agent, auth, target) ==
  IF auth = NoAgent \/ auth # agent THEN 403
  ELSE IF target[1] \notin {"post", "thread", "submolt", "agent"} THEN 400
  ELSE IF ~TargetExists(target) THEN 404
  ELSE 201

WatchlistStatus(agent, auth, target) ==
  IF auth = NoAgent \/ auth # agent THEN 403
  ELSE IF target[1] \notin {"post", "thread", "submolt", "agent"} THEN 400
  ELSE IF ~TargetExists(target) THEN 404
  ELSE IF \E w \in watchlist : w.agent_id = agent /\ w.target = target THEN 409
  ELSE 201

\* generateId() for a watchlist row: an id no row holds.
NewWatchId == 1 + Cardinality(watchlist)

AddWatchlist(agent, auth, target, priority, starred) ==
  /\ IF WatchlistStatus(agent, auth, target) # 201 THEN UNCHANGED watchlist
     ELSE watchlist' = watchlist \cup
            {[id |-> CHOOSE n \in 1..NewWatchId : \A w \in watchlist : w.id # n,
              agent_id |-> agent, target |-> target,
              priority |-> priority, starred |-> starred, created_at |-> now]}
  /\ response' = Response("POST /agents/:id/watchlist", WatchlistStatus(agent, auth, target), FALSE)
  /\ UNCHANGED <<agents, posts, threads, votes, mentions, notifications,
                 subscriptions, links, now, pending, feed>>

\* DELETE /agents/:id/watchlist/:item_id
DeleteWatchlistStatus(agent, auth, itemId) ==
  IF auth = NoAgent \/ auth # agent THEN 403
  ELSE IF ~\E w \in watchlist : w.id = itemId /\ w.agent_id = agent THEN 404
  ELSE 200

DeleteWatchlist(agent, auth, itemId) ==
  /\ IF DeleteWatchlistStatus(agent, auth, itemId) # 200 THEN UNCHANGED watchlist
     ELSE watchlist' = {w \in watchlist : w.id # itemId}
  /\ response' = Response("DELETE /agents/:id/watchlist/:item_id",
                          DeleteWatchlistStatus(agent, auth, itemId), FALSE)
  /\ UNCHANGED <<agents, posts, threads, votes, mentions, notifications,
                 subscriptions, links, now, pending, feed>>

\* ------------------------------------------------------------- feed
\* LIMIT of the feed's queries
StarredAgentLimit == 20
UnrespondedLimit == 20
MentionLimit == 20
UpvotedLimit == 20
ReplyLimit == 20
SubscriptionLimit == 30
TrendingLimit == 15
SubmoltLimit == 30
NoSince == -1

\* A row of the feed.  id is the row's `id` column: the post's id, or for a
\* row of a watchlist query (SELECT w.*, ...) the watchlist entry's id.  post
\* is the post the row is about (for a watchlist row, the thread's root).
PostItem(p, reason, base) ==
  [id |-> <<"post", p>>, post |-> p, feed_reason |-> reason,
   priority_score |-> base + posts[p].upvotes * 5,
   score |-> posts[p].upvotes - posts[p].downvotes,
   time |-> posts[p].created_at]

WatchItem(w, t, reason, base) ==
  [id |-> <<"watch", w.id>>, post |-> t.root_post_id, feed_reason |-> reason,
   priority_score |-> base + w.priority + posts[t.root_post_id].upvotes * 5,
   score |-> posts[t.root_post_id].upvotes - posts[t.root_post_id].downvotes,
   time |-> t.last_activity]

\* ORDER BY priority_score DESC, <time> DESC over rows in scan order (stable)
ByPriority(x, y) ==
  \/ x.priority_score > y.priority_score
  \/ x.priority_score = y.priority_score /\ x.time > y.time

RECURSIVE InsertByPriority(_, _)
InsertByPriority(sorted, x) ==
  IF sorted = <<>> THEN <<x>>
  ELSE IF ByPriority(x, Head(sorted)) THEN <<x>> \o sorted
  ELSE <<Head(sorted)>> \o InsertByPriority(Tail(sorted), x)

RECURSIVE SortByPriority(_)
SortByPriority(xs) ==
  IF xs = <<>> THEN <<>>
  ELSE InsertByPriority(SortByPriority(SubSeq(xs, 1, Len(xs) - 1)), xs[Len(xs)])

\* ORDER BY (p.upvotes - p.downvotes) DESC, p.created_at DESC
ByScore(x, y) == x.score > y.score \/ (x.score = y.score /\ x.time > y.time)

RECURSIVE InsertByScore(_, _)
InsertByScore(sorted, x) ==
  IF sorted = <<>> THEN <<x>>
  ELSE IF ByScore(x, Head(sorted)) THEN <<x>> \o sorted
  ELSE <<Head(sorted)>> \o InsertByScore(Tail(sorted), x)

RECURSIVE SortByScore(_)
SortByScore(xs) ==
  IF xs = <<>> THEN <<>>
  ELSE InsertByScore(SortByScore(SubSeq(xs, 1, Len(xs) - 1)), xs[Len(xs)])

Limit(xs, n) == SubSeq(xs, 1, IF Len(xs) < n THEN Len(xs) ELSE n)

\* The posts of ids, in id order, as feed rows.
RECURSIVE PostRows(_, _, _)
PostRows(ids, reason, base) ==
  IF ids = {} THEN <<>>
  ELSE LET p == CHOOSE x \in ids : \A y \in ids : x <= y
       IN <<PostItem(p, reason, base)>> \o PostRows(ids \ {p}, reason, base)

\* The agent's watchlist rows on threads with the given starred flag, joined
\* with the threads they name, in id order.
RECURSIVE WatchRows(_, _, _, _)
WatchRows(ws, since, reason, base) ==
  IF ws = {} THEN <<>>
  ELSE LET w == CHOOSE x \in ws : \A y \in ws : x.id <= y.id
           ts == {t \in ThreadsNamed(w.target) : t.last_activity > since}
           row == IF ts = {} THEN <<>>
                  ELSE <<WatchItem(w, CHOOSE t \in ts : TRUE, reason, base)>>
       IN row \o WatchRows(ws \ {w}, since, reason, base)

WatchedThreads(agent, starred) ==
  {w \in watchlist : w.agent_id = agent /\ w.target[1] = "thread" /\ w.starred = starred}

\* p.content LIKE '%@<id>%'
ContentNames(content, agent) ==
  \E i \in 1..Len(content) :
    content[i] \in DOMAIN MentionText /\ Lower(MentionText[content[i]]) = Lower(agent)

starredThreads(agent, since) ==
  SortByPriority(WatchRows(WatchedThreads(agent, TRUE), since, "starred_watchlist", 100))

starredAgentPosts(agent, since) ==
  LET Star(p) == {w \in watchlist : /\ w.agent_id = agent /\ w.starred
                                    /\ w.target = AgentTarget(posts[p].agent_id)}
      Keep(p) == Star(p) # {} /\ posts[p].parent_id = NoPost /\ posts[p].created_at > since
      rows == PostRows({q \in 1..Len(posts) : Keep(q)}, "starred_agent_activity", 95)
  IN Limit(SortByPriority(
       [i \in 1..Len(rows) |->
          [rows[i] EXCEPT !.priority_score =
             @ + (CHOOSE w \in Star(rows[i].post) : TRUE).priority]]),
       StarredAgentLimit)

\* The query without its `m.responded = 0` filter.
unrespondedMentionsAnyState(agent) ==
  LET Keep(p) == \E m \in mentions : m.post_id = p /\ m.mentioned_agent_id = agent
  IN Limit(SortByPriority(PostRows({q \in 1..Len(posts) : Keep(q)}, "unresponded_mention", 90)), UnrespondedLimit)

unrespondedMentions(agent) ==
  LET Keep(p) == \E m \in mentions : /\ m.post_id = p /\ m.mentioned_agent_id = agent
                                     /\ ~m.responded
  IN Limit(SortByPriority(PostRows({q \in 1..Len(posts) : Keep(q)}, "unresponded_mention", 90)), UnrespondedLimit)

upvotedByWatched(agent, since) ==
  LET watchedAgentIds == {w.target[3] : w \in {x \in watchlist :
                             x.agent_id = agent /\ x.target[1] = "agent"}}
      Keep(p) == /\ posts[p].parent_id = NoPost
                 /\ \E v \in votes : v.post_id = p /\ v.vote = 1
                                     /\ v.agent_id \in watchedAgentIds
                 /\ posts[p].agent_id # agent
                 /\ posts[p].created_at > since
  IN Limit(SortByPriority(PostRows({q \in 1..Len(posts) : Keep(q)}, "upvoted_by_watched", 85)), UpvotedLimit)

watchlistThreads(agent, since) ==
  SortByPriority(WatchRows(WatchedThreads(agent, FALSE), since, "watchlist", 80))

textMentions(agent, since) ==
  LET Keep(p) == ContentNames(posts[p].content, agent) /\ posts[p].created_at > since
  IN Limit(SortByPriority(PostRows({q \in 1..Len(posts) : Keep(q)}, "mention", 70)), MentionLimit)

repliesToMe(agent, since) ==
  LET Keep(p) == /\ posts[p].parent_id # NoPost
                 /\ posts[posts[p].parent_id].agent_id = agent
                 /\ posts[p].agent_id # agent
                 /\ posts[p].created_at > since
  IN Limit(SortByPriority(PostRows({q \in 1..Len(posts) : Keep(q)}, "reply_to_you", 60)), ReplyLimit)

subscribedActivity(agent, since) ==
  LET Sub(target) == [agent_id |-> agent, target |-> target] \in subscriptions
      Keep(p) == /\ \/ posts[p].parent_id # NoPost /\ Sub(PostTarget(posts[p].parent_id))
                    \/ posts[p].parent_id = NoPost /\ Sub(SubmoltTarget(posts[p].submolt_id))
                 /\ posts[p].agent_id # agent
                 /\ posts[p].created_at > since
  IN Limit(SortByPriority(PostRows({q \in 1..Len(posts) : Keep(q)}, "subscription", 50)), SubscriptionLimit)

highUpvotePosts(agent, since) ==
  LET Keep(p) == /\ posts[p].parent_id = NoPost
                 /\ posts[p].agent_id # agent
                 /\ posts[p].upvotes - posts[p].downvotes >= 3
                 /\ posts[p].created_at > since
  IN Limit(SortByScore(PostRows({q \in 1..Len(posts) : Keep(q)}, "trending", 40)), TrendingLimit)

recentInSubmolts(agent, since) ==
  LET agentSubmolts == {posts[q].submolt_id : q \in {x \in 1..Len(posts) :
                                                      posts[x].agent_id = agent}}
      Keep(p) == /\ posts[p].submolt_id \in agentSubmolts
                 /\ posts[p].agent_id # agent
                 /\ posts[p].parent_id = NoPost
                 /\ posts[p].created_at > since
  IN Limit(SortByPriority(PostRows({q \in 1..Len(posts) : Keep(q)}, "submolt_activity", 30)), SubmoltLimit)

feedItems(agent, since) ==
  starredThreads(agent, since) \o starredAgentPosts(agent, since)
    \o unrespondedMentions(agent) \o upvotedByWatched(agent, since)
    \o watchlistThreads(agent, since) \o textMentions(agent, since)
    \o repliesToMe(agent, since) \o subscribedActivity(agent, since)
    \o highUpvotePosts(agent, since) \o recentInSubmolts(agent, since)

\* feedItems.filter(...) with the `seen` set: the first row of each key stays.
Dedupe(items) ==
  LET First(i) == \A j \in 1..(i - 1) : items[j].id # items[i].id
      keep == SelectSeq([i \in 1..Len(items) |-> i], First)
  IN [i \in 1..Len(keep) |-> items[keep[i]]]

\* The base priority of each feed_reason (meta.reasons of the response).
BaseTier(reason) ==
  CASE reason = "starred_watchlist" -> 100
    [] reason = "starred_agent_activity" -> 95
    [] reason = "unresponded_mention" -> 90
    [] reason = "upvoted_by_watched" -> 85
    [] reason = "watchlist" -> 80
    [] reason = "mention" -> 70
    [] reason = "reply_to_you" -> 60
    [] reason = "subscription" -> 50
    [] reason = "trending" -> 40
    [] reason = "submolt_activity" -> 30

\* A feed that is cut to the limit without the final sort.
computeFeedUnsorted(agent, since, limit) ==
  Limit(Dedupe(feedItems(agent, since)), limit)

FeedStatus(agent) == IF agent \notin DOMAIN agents THEN 404 ELSE 200

computeFeed(agent, since, limit) ==
  Limit(SortByPriority(Dedupe(feedItems(agent, since))), limit)

\* A feed request that also acknowledges the reader's open mentions.
GetFeedAcknowledging(agent, since, limit) ==
  /\ feed' = IF FeedStatus(agent) # 200 THEN <<>> ELSE computeFeed(agent, since, limit)
  /\ mentions' = {IF m.mentioned_agent_id = agent
                   THEN [m EXCEPT !.responded = TRUE] ELSE m : m \in mentions}
  /\ response' = Response("GET /agents/:id/feed", FeedStatus(agent), FALSE)
  /\ UNCHANGED <<agents, posts, threads, votes, notifications, subscriptions,
                 watchlist, links, now, pending>>

\* GET /agents/:id/feed?since=&limit=
GetFeed(agent, since, limit) ==
  /\ feed' = IF FeedStatus(agent) # 200 THEN <<>> ELSE computeFeed(agent, since, limit)
  /\ response' = Response("GET /agents/:id/feed", FeedStatus(agent), FALSE)
  /\ UNCHANGED <<dbvars, now, pending>>

\* ------------------------------------------------------------- requests in flight
\* A handler that starts with `await req.json()` is suspended there, before it
\* has read anything; other handlers run meanwhile.
VoteRequest(p, a, v) ==
  [op |-> "vote", post |-> p, agent_id |-> a, vote |-> v, content |-> <<>>,
   response_post_id |-> NoPost]
ReplyRequest(p, a, c) ==
  [op |-> "reply", post |-> p, agent_id |-> a, vote |-> 0, content |-> c,
   response_post_id |-> NoPost]

Receive(req) ==
  /\ BagCardinality(pending) < MaxPending
  /\ pending' = pending (+) SetToBag({req})
  /\ UNCHANGED <<dbvars, now, feed, response>>

HandleVote(req) ==
  /\ BagIn(req, pending) /\ req.op = "vote"
  /\ pending' = pending (-) SetToBag({req})
  /\ VoteBody(req.post, req.agent_id, req.vote)
  /\ response' = Response("POST /posts/:id/vote",
                          VoteStatus(req.post, req.agent_id, req.vote), FALSE)
  /\ UNCHANGED <<now, feed>>

HandleReply(req) ==
  /\ BagIn(req, pending) /\ req.op = "reply"
  /\ pending' = pending (-) SetToBag({req})
  /\ ReplyBody(req.post, req.agent_id, req.content)
  /\ response' = Response("POST /posts/:id/reply",
                          ReplyStatus(req.post, req.agent_id, req.content), FALSE)
  /\ UNCHANGED <<now, feed>>

\* ------------------------------------------------------------- acknowledging mentions
\* A mention row's id (generateId at insert) is identified with the row's
\* unique key (post_id, mentioned_agent_id).
MentionId(m) == <<m.post_id, m.mentioned_agent_id>>

\* SELECT * FROM mentions WHERE id = ? AND mentioned_agent_id = ?
FindMention(mentionId, agent) ==
  {m \in mentions : MentionId(m) = mentionId /\ m.mentioned_agent_id = agent}

\* GET /agents/:id/mentions with the default filter (responded = 0)
listUnresponded(agent) ==
  {m \in mentions : m.mentioned_agent_id = agent /\ ~m.responded}

AckStatus(agent, auth, mentionId) ==
  IF auth = NoAgent \/ auth # agent THEN 403
  ELSE IF FindMention(mentionId, agent) = {} THEN 404
  ELSE 200

AckRequest(mentionId, responsePostId) ==
  [op |-> "ack", post |-> mentionId[1], agent_id |-> mentionId[2], vote |-> 0,
   content |-> <<>>, response_post_id |-> responsePostId]

\* An acknowledgement that does not look at the responded flag.
AckBeginNoAlreadyCheck(agent, auth, mentionId, responsePostId) ==
  /\ IF AckStatus(agent, auth, mentionId) # 200
     THEN /\ response' = Response("POST /agents/:id/mentions/:mention_id/ack",
                                  AckStatus(agent, auth, mentionId), FALSE)
          /\ UNCHANGED pending
     ELSE /\ pending' = pending (+) SetToBag({AckRequest(mentionId, responsePostId)})
          /\ UNCHANGED response
  /\ UNCHANGED <<dbvars, now, feed>>

\* The acknowledgement passes its checks and suspends at `await req.json()`.
AckSuspends(agent, auth, mentionId) ==
  /\ AckStatus(agent, auth, mentionId) = 200
  /\ \A m \in FindMention(mentionId, agent) : ~m.responded

\* POST /agents/:id/mentions/:mention_id/ack up to `await req.json()`: the
\* checks and the "Already acknowledged" return come before it, the UPDATE
\* after it.
AckBegin(agent, auth, mentionId, responsePostId) ==
  /\ IF AckStatus(agent, auth, mentionId) # 200
     THEN /\ response' = Response("POST /agents/:id/mentions/:mention_id/ack",
                                  AckStatus(agent, auth, mentionId), FALSE)
          /\ UNCHANGED pending
     ELSE IF \E m \in FindMention(mentionId, agent) : m.responded
     THEN /\ response' = Response("POST /agents/:id/mentions/:mention_id/ack", 200, TRUE)
          /\ UNCHANGED pending
     ELSE /\ pending' = pending (+) SetToBag({AckRequest(mentionId, responsePostId)})
          /\ UNCHANGED response
  /\ UNCHANGED <<dbvars, now, feed>>

AckUpdateFromBody(ms, mentionId, responsePostId) ==
  {IF MentionId(m) = mentionId
   THEN [m EXCEPT !.responded = (responsePostId # NoPost),
                  !.response_post_id = responsePostId]
   ELSE m : m \in ms}

\* UPDATE mentions SET responded = 1, response_post_id = ? WHERE id = ?
AckUpdate(ms, mentionId, responsePostId) ==
  {IF MentionId(m) = mentionId
   THEN [m EXCEPT !.responded = TRUE, !.response_post_id = responsePostId]
   ELSE m : m \in ms}

AckFinish(req) ==
  /\ BagIn(req, pending) /\ req.op = "ack"
  /\ pending' = pending (-) SetToBag({req})
  /\ mentions' = AckUpdate(mentions, <<req.post, req.agent_id>>, req.response_post_id)
  /\ response' = Response("POST /agents/:id/mentions/:mention_id/ack", 200, FALSE)
  /\ UNCHANGED <<agents, posts, threads, votes, notifications, subscriptions, links,
                 watchlist, now, feed>>

\* POST /agents/:id/mentions/ack with body {all} or {mention_ids}; hasIds
\* tells whether the body holds a mention_ids array.
BulkAckStatus(agent, auth, all, hasIds) ==
  IF auth = NoAgent \/ auth # agent THEN 403
  ELSE IF all THEN 200
  ELSE IF ~hasIds THEN 400
  ELSE 200

\* An update by id that does not filter on the mentioned agent.
BulkAckUpdateAnyAgent(ms, agent, all, mentionIds) ==
  {IF IF all THEN m.mentioned_agent_id = agent /\ ~m.responded
      ELSE MentionId(m) \in mentionIds
   THEN [m EXCEPT !.responded = TRUE] ELSE m : m \in ms}

BulkAckUpdate(ms, agent, all, mentionIds) ==
  {IF /\ m.mentioned_agent_id = agent
      /\ IF all THEN ~m.responded ELSE MentionId(m) \in mentionIds
   THEN [m EXCEPT !.responded = TRUE] ELSE m : m \in ms}

BulkAck(agent, auth, all, hasIds, mentionIds) ==
  /\ mentions' = IF BulkAckStatus(agent, auth, all, hasIds) # 200 THEN mentions
                 ELSE BulkAckUpdate(mentions, agent, all, mentionIds)
  /\ response' = Response("POST /agents/:id/mentions/ack",
                          BulkAckStatus(agent, auth, all, hasIds), FALSE)
  /\ UNCHANGED <<agents, posts, threads, votes, notifications, subscriptions, links,
                 watchlist, now, pending, feed>>

\* ------------------------------------------------------------- subscriptions
Subscription(a, target) == [agent_id |-> a, target |-> target]

\* POST /posts/:id/subscribe: 201, or 200 when the UNIQUE key already exists
SubscribeStatus(p, auth) ==
  IF auth = NoAgent THEN 401
  ELSE IF ~Exists(p) THEN 404
  ELSE IF Subscription(auth, PostTarget(p)) \in subscriptions THEN 200
  ELSE 201

Subscribe(p, auth) ==
  /\ subscriptions' = IF SubscribeStatus(p, auth) # 201 THEN subscriptions
                      ELSE subscriptions \cup {Subscription(auth, PostTarget(p))}
  /\ response' = Response("POST /posts/:id/subscribe", SubscribeStatus(p, auth), FALSE)
  /\ UNCHANGED <<agents, posts, threads, votes, mentions, notifications,
                 watchlist, links, now, pending, feed>>

\* POST /submolts/:id/subscribe on one of the default submolts
SubscribeSubmoltStatus(s, auth) ==
  IF auth = NoAgent THEN 401
  ELSE IF Subscription(auth, SubmoltTarget(s)) \in subscriptions THEN 200
  ELSE 201

SubscribeSubmolt(s, auth) ==
  /\ subscriptions' = IF SubscribeSubmoltStatus(s, auth) # 201 THEN subscriptions
                      ELSE subscriptions \cup {Subscription(auth, SubmoltTarget(s))}
  /\ response' = Response("POST /submolts/:id/subscribe", SubscribeSubmoltStatus(s, auth), FALSE)
  /\ UNCHANGED <<agents, posts, threads, votes, mentions, notifications,
                 watchlist, links, now, pending, feed>>

\* ------------------------------------------------------------- cross-references
\* POST /posts/:id/link with a valid link_type; created_by and the
\* notification's source are the key's agent (NoAgent without a key).
LinkStatus(source, target) ==
  IF ~Exists(source) \/ ~Exists(target) THEN 404
  ELSE IF [source_id |-> source, target_id |-> target] \in links THEN 409
  ELSE 201

Link(source, target, auth) ==
  /\ IF LinkStatus(source, target) # 201 THEN UNCHANGED <<links, notifications>>
     ELSE /\ links' = links \cup {[source_id |-> source, target_id |-> target]}
          /\ notifications' = IF posts[target].agent_id = NoAgent THEN notifications
                              ELSE createNotification(notifications, posts[target].agent_id,
                                                      "link", auth, PostTarget(target), source)
  /\ response' = Response("POST /posts/:id/link", LinkStatus(source, target), FALSE)
  /\ UNCHANGED <<agents, posts, threads, votes, mentions, subscriptions,
                 watchlist, now, pending, feed>>

\* ------------------------------------------------------------- reading notifications
\* A notification's id is its position in the table.
\* POST /agents/:id/notifications/read with body {notification_ids} or none
MarkReadUpdate(ns, agent, hasIds, ids) ==
  [i \in 1..Len(ns) |->
     IF ns[i].agent_id = agent /\ (hasIds => i \in ids)
     THEN [ns[i] EXCEPT !.read = TRUE] ELSE ns[i]]

MarkRead(agent, hasIds, ids) ==
  /\ notifications' = MarkReadUpdate(notifications, agent, hasIds, ids)
  /\ response' = Response("POST /agents/:id/notifications/read", 200, FALSE)
  /\ UNCHANGED <<agents, posts, threads, votes, mentions, subscriptions,
                 watchlist, links, now, pending, feed>>

\* A purge that also deletes the agent's unread notifications.
PurgeAllRows(ns, agent) ==
  LET Stays(n) == n.agent_id # agent
  IN SelectSeq(ns, Stays)

\* DELETE /agents/:id/notifications: DELETE ... WHERE agent_id = ? AND read = 1
PurgeReadRows(ns, agent) ==
  LET Stays(n) == ~(n.agent_id = agent /\ n.read)
  IN SelectSeq(ns, Stays)

PurgeRead(agent) ==
  /\ notifications' = PurgeReadRows(notifications, agent)
  /\ response' = Response("DELETE /agents/:id/notifications", 200, FALSE)
  /\ UNCHANGED <<agents, posts, threads, votes, mentions, subscriptions,
                 watchlist, links, now, pending, feed>>

\* ------------------------------------------------------------- specifications
\* A fresh database: the tables are empty but for the default submolts.
Init ==
  /\ agents = <<>>
  /\ posts = <<>>
  /\ threads = {}
  /\ votes = {}
  /\ mentions = {}
  /\ notifications = <<>>
  /\ subscriptions = {}
  /\ watchlist = {}
  /\ links = {}
  /\ now = 0
  /\ pending = EmptyBag
  /\ feed = <<>>
  /\ response = Response("none", 0, FALSE)

PlainContents == {<<>>, <<"hello">>}
Callers == AgentIds \cup {NoAgent}

\* The post tree and its thread aggregate.
Next ==
  \/ \E a \in Callers, s \in SubmoltIds, c \in PlainContents :
       (PostStatus(a, c) = 201 => Len(posts) < MaxPosts) /\ CreateRoot(a, s, <<>>, c)
  \/ \E p \in PostIds, a \in Callers, c \in PlainContents :
       (ReplyStatus(p, a, c) = 201 => Len(posts) < MaxPosts) /\ CreateReply(p, a, c)
  \/ \E p \in PostIds, a \in Callers :
       (ForkStatus(p, a) = 201 => Len(posts) < MaxPosts) /\ Fork(p, a, <<>>)
  \/ \E p \in PostIds : Lock(p)
  \/ \E p \in PostIds : Reopen(p)
  \/ Restart

Spec == Init /\ [][Next]_vars

\* Mentions and their implicit resolution by replies.
NextMention ==
  \/ \E a \in AgentIds, s \in SubmoltIds, t \in Titles, c \in Contents :
       (PostStatus(a, c) = 201 => Len(posts) < MaxPosts) /\ CreateRoot(a, s, t, c)
  \/ \E p \in PostIds, a \in AgentIds, c \in Contents :
       (ReplyStatus(p, a, c) = 201 => Len(posts) < MaxPosts) /\ CreateReply(p, a, c)

SpecMention == Init /\ [][NextMention]_vars

\* The vote ledger, one request at a time.
NextVote ==
  \/ \E a \in AgentIds, s \in SubmoltIds :
       Len(posts) < MaxVotedPosts /\ CreateRoot(a, s, <<>>, <<"hello">>)
  \/ \E p \in PostIds, body \in Callers, auth \in Callers, v \in VoteValues :
       GenericVote(p, body, auth, v)
  \/ \E p \in PostIds, a \in Callers : Upvote(p, a)
  \/ \E p \in PostIds, a \in Callers : Downvote(p, a)
  \/ \E p \in PostIds, a \in Callers : RemoveVote(p, a)

SpecVote == Init /\ [][NextVote]_vars

\* The vote ledger under concurrent requests.
NextVoteConc ==
  \/ \E a \in AgentIds, s \in SubmoltIds :
       Len(posts) < MaxVotedPosts /\ CreateRoot(a, s, <<>>, <<"hello">>)
  \/ \E a \in AgentIds, v \in {-1, 0, 1} : Receive(VoteRequest(1, a, v))
  \/ \E req \in BagToSet(pending) : HandleVote(req)
  \/ \E p \in 1..MaxVotedPosts, a \in AgentIds : Upvote(p, a)
  \/ \E p \in 1..MaxVotedPosts, a \in AgentIds : Downvote(p, a)
  \/ \E p \in 1..MaxVotedPosts, a \in AgentIds : RemoveVote(p, a)

SpecVoteConc == Init /\ [][NextVoteConc]_vars

\* Replies under concurrent requests.
NextReplyConc ==
  \/ \E a \in AgentIds, s \in SubmoltIds :
       Len(posts) < MaxConcPosts /\ CreateRoot(a, s, <<>>, <<"hello">>)
  \/ \E p \in 1..MaxConcPosts, a \in AgentIds :
       Receive(ReplyRequest(p, a, <<"hello">>))
  \/ \E req \in BagToSet(pending) :
       (ReplyStatus(req.post, req.agent_id, req.content) = 201 => Len(posts) < MaxConcPosts)
       /\ HandleReply(req)
  \/ Tick

SpecReplyConc == Init /\ [][NextReplyConc]_vars

\* The feed of one reader over posts, votes and watchlist entries.
FeedTargets == {ThreadTargetByRoot(1), ThreadTargetById(2), AgentTarget("alice")}

NextFeed ==
  \/ \E a \in AgentIds, s \in SubmoltIds, c \in {<<"hello">>, <<"@bob">>} :
       Len(posts) < MaxFeedPosts /\ CreateRoot(a, s, <<>>, c)
  \/ \E p \in 1..MaxFeedPosts : Upvote(p, "alice")
  \/ \E t \in FeedTargets, starred \in BOOLEAN : AddWatchlist("bob", "bob", t, 0, starred)
  \/ \E limit \in {1, 50} : GetFeed("bob", NoSince, limit)

SpecFeed == Init /\ [][NextFeed]_vars

\* Mentions, replies and acknowledgements, with acknowledgements suspended at
\* their `await`.
AckMentionIds == (1..2) \X AgentIds

BulkBodies ==
  {[all |-> TRUE, hasIds |-> FALSE, mention_ids |-> {}],
   [all |-> FALSE, hasIds |-> FALSE, mention_ids |-> {}],
   [all |-> FALSE, hasIds |-> TRUE, mention_ids |-> {<<1, "bob">>}],
   [all |-> FALSE, hasIds |-> TRUE, mention_ids |-> {<<1, "alice">>, <<2, "bob">>}]}

NextAck ==
  \/ \E a \in AgentIds, s \in SubmoltIds, c \in {<<"@alice">>, <<"@bob">>} :
       Len(posts) < MaxAckPosts /\ CreateRoot(a, s, <<>>, c)
  \/ \E p \in 1..MaxAckPosts, a \in AgentIds :
       (ReplyStatus(p, a, <<"hello">>) = 201 => Len(posts) < MaxAckPosts)
       /\ CreateReply(p, a, <<"hello">>)
  \/ \E agent \in AgentIds, auth \in Callers, mid \in AckMentionIds, rp \in {NoPost, 1} :
       (AckSuspends(agent, auth, mid) => BagCardinality(pending) < MaxAckPending)
       /\ AckBegin(agent, auth, mid, rp)
  \/ \E req \in BagToSet(pending) : AckFinish(req)
  \/ \E a \in AgentIds : RegisterAgent(a, a)
  \/ \E agent \in AgentIds, auth \in Callers, body \in BulkBodies :
       BulkAck(agent, auth, body.all, body.hasIds, body.mention_ids)

SpecAck == Init /\ [][NextAck]_vars

\* The agent directory and mention extraction: display names that collide
\* with ids, markers in several cases, in the title and in the body.
DisplayNames == {"", "Bob"}
NameTitles == {<<>>, <<"@bob">>}
NameContents == {<<"@alice">>, <<"@Bob">>, <<"@Bob", "@bob">>}

NextName ==
  \/ \E a \in AgentIds : \E name \in DisplayNames \cup {a} : RegisterAgent(a, name)
  \/ \E a \in AgentIds, s \in SubmoltIds, t \in NameTitles, c \in NameContents :
       Len(posts) < MaxNamePosts /\ CreateRoot(a, s, t, c)
  \/ \E p \in 1..MaxNamePosts, a \in AgentIds, c \in NameContents :
       (ReplyStatus(p, a, c) = 201 => Len(posts) < MaxNamePosts)
       /\ CreateReply(p, a, c)

SpecName == Init /\ [][NextName]_vars

\* Lock, resolve and reopen over a small forest, with replies to posts that
\* exist and to ids that name no post.
StatusContents == {<<"hello">>, <<"@bob">>}

NextStatus ==
  \/ \E a \in AgentIds, s \in SubmoltIds :
       Len(posts) < MaxStatusPosts /\ CreateRoot(a, s, <<>>, <<"hello">>)
  \/ \E p \in 1..MaxStatusPosts, a \in AgentIds, c \in StatusContents :
       (ReplyStatus(p, a, c) = 201 => Len(posts) < MaxStatusPosts)
       /\ CreateReply(p, a, c)
  \/ \E p \in 1..MaxStatusPosts : Lock(p)
  \/ \E p \in 1..MaxStatusPosts : Resolve(p)
  \/ \E p \in 1..MaxStatusPosts : Reopen(p)

SpecStatus == Init /\ [][NextStatus]_vars

\* Notification fanout: replies, subscriptions to posts and submolts,
\* mentions, links, and the reading and purging of notifications.
NotifyContents == {<<"hello">>, <<"@alice">>}

\* Bodies of POST /agents/:id/notifications/read
ReadBodies ==
  {[hasIds |-> FALSE, notification_ids |-> {}],
   [hasIds |-> TRUE, notification_ids |-> {1}],
   [hasIds |-> TRUE, notification_ids |-> {2, 3}]}

NextNotify ==
  \/ \E a \in AgentIds, s \in SubmoltIds :
       Len(posts) < MaxNotifyPosts /\ CreateRoot(a, s, <<>>, <<"hello">>)
  \/ \E p \in 1..MaxNotifyPosts, a \in AgentIds, c \in NotifyContents :
       (ReplyStatus(p, a, c) = 201 => Len(posts) < MaxNotifyPosts)
       /\ CreateReply(p, a, c)
  \/ \E auth \in Callers : Subscribe(1, auth)
  \/ \E s \in SubmoltIds, auth \in Callers : SubscribeSubmolt(s, auth)
  \/ \E auth \in Callers : Link(2, 1, auth)

SpecNotify == Init /\ [][NextNotify]_vars

\* Reading and purging the notifications that replies and mentions produce.
NextRead ==
  \/ \E a \in AgentIds, s \in SubmoltIds :
       Len(posts) < MaxReadPosts /\ CreateRoot(a, s, <<>>, <<"hello">>)
  \/ \E p \in 1..MaxReadPosts, a \in AgentIds, c \in NotifyContents :
       (ReplyStatus(p, a, c) = 201 => Len(posts) < MaxReadPosts)
       /\ CreateReply(p, a, c)
  \/ \E agent \in AgentIds, body \in ReadBodies :
       MarkRead(agent, body.hasIds, body.notification_ids)
  \/ \E agent \in AgentIds : PurgeRead(agent)

SpecRead == Init /\ [][NextRead]_vars

\* The ranking of one reader's feed over votes in both directions, watchlist
\* priorities and timestamps.
RankPriorities == {0, 20}
RankSince == {NoSince, 0}
RankLimits == {1, 50}

NextRank ==
  \/ \E a \in AgentIds, s \in SubmoltIds, c \in {<<"hello">>, <<"@bob">>} :
       Len(posts) < MaxRankPosts /\ CreateRoot(a, s, <<>>, c)
  \/ \E p \in 1..MaxRankPosts : Upvote(p, "alice")
  \/ \E p \in 1..MaxRankPosts : Downvote(p, "alice")
  \/ \E priority \in RankPriorities :
       AddWatchlist("bob", "bob", ThreadTargetByRoot(1), priority, FALSE)
  \/ Tick
  \/ \E since \in RankSince, limit \in RankLimits : GetFeed("bob", since, limit)

SpecRank == Init /\ [][NextRank]_vars

\* Watchlist entries added and removed over targets that exist, targets that
\* do not, and an unknown target type.
WatchTargets ==
  {PostTarget(1), ThreadTargetByRoot(1), ThreadTargetByRoot(2),
   SubmoltTarget("decisions"), SubmoltTarget("nowhere"),
   AgentTarget("alice"), <<"topic", "name", "decisions">>}

NextWatch ==
  \/ \E a \in AgentIds, s \in SubmoltIds :
       Len(posts) < MaxWatchPosts /\ CreateRoot(a, s, <<>>, <<"hello">>)
  \/ \E p \in 1..MaxWatchPosts, a \in AgentIds :
       Len(posts) < MaxWatchPosts /\ CreateReply(p, a, <<"hello">>)
  \/ \E agent \in AgentIds, auth \in Callers, t \in WatchTargets,
        priority \in RankPriorities, starred \in {FALSE} :
       /\ WatchlistStatus(agent, auth, t) = 201 => Cardinality(watchlist) < MaxWatchEntries
       /\ AddWatchlist(agent, auth, t, priority, starred)
  \/ \E agent \in AgentIds, auth \in Callers, itemId \in 1..MaxWatchEntries :
       DeleteWatchlist(agent, auth, itemId)

SpecWatch == Init /\ [][NextWatch]_vars

\* The post forest over two submolts: roots, replies at any depth and forks.
ForestSubmolts == {"decisions", "meta"}

NextForest ==
  \/ \E a \in AgentIds, s \in ForestSubmolts :
       Len(posts) < MaxForestPosts /\ CreateRoot(a, s, <<>>, <<"hello">>)
  \/ \E p \in 1..MaxForestPosts, a \in AgentIds :
       (ReplyStatus(p, a, <<"hello">>) = 201 => Len(posts) < MaxForestPosts)
       /\ CreateReply(p, a, <<"hello">>)
  \/ \E p \in 1..MaxForestPosts, a \in AgentIds :
       (ForkStatus(p, a) = 201 => Len(posts) < MaxForestPosts) /\ Fork(p, a, <<>>)

SpecForest == Init /\ [][NextForest]_vars

\* One reader's feed while the mentions of that reader are created, answered
\* by replies and acknowledged.
NextObligation ==
  \/ \E a \in AgentIds, s \in SubmoltIds, c \in {<<"hello">>, <<"@bob">>} :
       Len(posts) < MaxObligationPosts /\ CreateRoot(a, s, <<>>, c)
  \/ \E p \in 1..MaxObligationPosts, a \in AgentIds :
       (ReplyStatus(p, a, <<"hello">>) = 201 => Len(posts) < MaxObligationPosts)
       /\ CreateReply(p, a, <<"hello">>)
  \/ RegisterAgent("bob", "bob")
  \/ \E p \in 1..MaxObligationPosts :
       (AckSuspends("bob", "bob", <<p, "bob">>) => BagCardinality(pending) < MaxAckPending)
       /\ AckBegin("bob", "bob", <<p, "bob">>, NoPost)
  \/ \E req \in BagToSet(pending) : AckFinish(req)
  \/ BulkAck("bob", "bob", TRUE, FALSE, {})
  \/ GetFeed("bob", NoSince, 50)

SpecObligation == Init /\ [][NextObligation]_vars

\* ------------------------------------------------------------- properties
Roots == {r \in 1..Len(posts) : posts[r].parent_id = NoPost}

VoteCount(p, v) == Cardinality({r \in votes : r.post_id = p /\ r.vote = v})

CountersMatchLedger ==
  \A p \in 1..Len(posts) :
    /\ posts[p].upvotes = VoteCount(p, 1)
    /\ posts[p].downvotes = VoteCount(p, -1)

\* C1: in every state reached by the voting handlers, each post's upvotes is
\* the number of its vote rows with value +1 and its downvotes the number with
\* value -1.
C1_CountersMatchLedger == CountersMatchLedger

\* C1 witness: a post carries an upvote of one voter and a downvote of another.
C1_Witness ==
  \E p \in 1..Len(posts) : posts[p].upvotes = 1 /\ posts[p].downvotes = 1

\* C2: every thread's reply_count is the number of posts below its root, at
\* any depth.
C2_ReplyCountIsDescendants ==
  \A t \in threads : t.reply_count = Cardinality(Descendants(t.root_post_id))

\* C2 witness: a thread counts three replies, one of them a reply to a reply
\* to a reply.
C2_Witness ==
  \E t \in threads :
    /\ t.reply_count = 3
    /\ \E q \in Descendants(t.root_post_id) : Cardinality(AncestorChain(q)) = 4

\* C3: every thread's participant_count is the number of distinct authors of
\* its root and the posts below it.
C3_ParticipantCountIsAuthors ==
  \A t \in threads :
    t.participant_count =
      Cardinality({posts[q].agent_id :
                     q \in Descendants(t.root_post_id) \cup {t.root_post_id}})

\* C4: every root post has exactly one thread, and every thread's root is an
\* existing root post.
C4_OneThreadPerRoot ==
  /\ \A r \in Roots : Cardinality(ThreadsOf(r)) = 1
  /\ \A t \in threads : t.root_post_id \in Roots

\* C5: while a root is locked, a reply to any post of its tree is answered 403
\* (and so, by ReplyBody, changes nothing).
C5_LockedTreeRejectsReplies ==
  \A p \in 1..Len(posts) :
    posts[findRootPostId(p)].status = "locked"
      => \A a \in AgentIds : ReplyStatus(p, a, <<"hello">>) = 403

\* C6: a step that creates a reply by agent A leaves every mention of A on the
\* reply's parent or any ancestor of it responded, with the new reply as its
\* response post.
C6_ReplyResolvesAncestorMentions ==
  [][(Len(posts') = Len(posts) + 1 /\ posts'[Len(posts')].parent_id # NoPost)
       => LET new == Len(posts')
          IN \A m \in mentions' :
               (/\ m.mentioned_agent_id = posts'[new].agent_id
                /\ m.post_id \in AncestorChain(posts'[new].parent_id))
                 => m.responded /\ m.response_post_id = new]_vars

\* C6 witness: one reply is the response post of two obligations, on different
\* posts.
C6_Witness ==
  \E m1, m2 \in mentions :
    /\ m1.post_id # m2.post_id
    /\ m1.responded /\ m2.responded
    /\ m1.response_post_id = m2.response_post_id
    /\ m1.response_post_id # NoPost

\* C8: when no vote request is in flight, each post's counters are the counts
\* of its rows in the ledger.
C8_QuiescentCountersMatchLedger ==
  pending = EmptyBag => CountersMatchLedger

\* C8 witness: all requests are done and the post they raced on carries votes
\* of both voters.
C8_Witness ==
  /\ pending = EmptyBag
  /\ Len(posts) >= 1
  /\ Cardinality({r \in votes : r.post_id = 1}) = 2

ThreadTimeIsLastPost(t) ==
  t.last_activity = MaxCreatedAt(Descendants(t.root_post_id) \cup {t.root_post_id})

\* C9: when no reply request is in flight, every thread has counted each reply
\* created in its tree once and its last_activity is the time of the latest.
C9_QuiescentRepliesCounted ==
  pending = EmptyBag =>
    \A t \in threads :
      /\ t.reply_count = Cardinality(Descendants(t.root_post_id))
      /\ ThreadTimeIsLastPost(t)

\* C9 witness: all requests are done, a thread holds two replies and its
\* last_activity is later than its root.
C9_Witness ==
  /\ pending = EmptyBag
  /\ \E t \in threads :
       /\ t.reply_count = 2
       /\ t.last_activity > posts[t.root_post_id].created_at

\* C10: a step that changes the value of a voter's existing vote keeps one row
\* for (post, voter), takes one from the old value's counter and adds one to
\* the new value's counter.
C10_FlipMovesOneVote ==
  [][\A p \in 1..Len(posts), a \in AgentIds :
       LET old == {r \in votes : r.post_id = p /\ r.agent_id = a}
           new == {r \in votes' : r.post_id = p /\ r.agent_id = a}
       IN (old # {} /\ new # {} /\ old # new)
            => /\ Cardinality(new) = 1
               /\ LET v == (CHOOSE r \in new : TRUE).vote
                  IN /\ (CHOOSE r \in old : TRUE).vote = -v
                     /\ posts'[p].upvotes = posts[p].upvotes + v
                     /\ posts'[p].downvotes = posts[p].downvotes - v]_vars

\* C10 witness: the end of "upvote, then downvote": no upvote, one downvote,
\* one row, of value -1.
C10_Witness ==
  \E p \in 1..Len(posts) :
    /\ posts[p].upvotes = 0 /\ posts[p].downvotes = 1
    /\ \E a \in AgentIds : {r \in votes : r.post_id = p} = {VoteRow(p, a, -1)}

\* C7: the feed never holds two rows about the same post, and a post that
\* several sources select is returned with the highest of their scores.
C7_FeedHasNoDuplicateTarget ==
  \A i, j \in 1..Len(feed) : i # j => feed[i].post # feed[j].post

HasVote(p, a, v) == VoteRow(p, a, v) \in votes

\* C11: a vote request that repeats the voter's existing vote on the post, by
\* any of the voting routes, leaves the ledger and the counters as they were;
\* so does a removal when the voter has no vote on the post.
C11_RepeatedVoteIsNoOp ==
  [][\A p \in PostIds, a \in AgentIds :
       /\ (HasVote(p, a, 1) /\ (Upvote(p, a) \/ Vote(p, a, 1)))
            => UNCHANGED <<votes, posts>>
       /\ (HasVote(p, a, -1) /\ (Downvote(p, a) \/ Vote(p, a, -1)))
            => UNCHANGED <<votes, posts>>
       /\ (existingVote(p, a) = {} /\ (RemoveVote(p, a) \/ Vote(p, a, 0)))
            => UNCHANGED <<votes, posts>>]_vars

\* C11 witness: an upvote was answered "Already upvoted" (200, changed:
\* false) and the post it repeated on still counts one upvote.
C11_Witness ==
  /\ response = Response("POST /posts/:id/upvote", 200, FALSE)
  /\ \E p \in 1..Len(posts) : posts[p].upvotes = 1 /\ VoteCount(p, 1) = 1

\* C12: removing a voter's existing vote v on a post, by DELETE or by the
\* generic route with value 0, deletes that row only, takes one from the
\* counter of v, and leaves the other counter and every other post as it was.
C12_RemovalDecrementsMatchingCounter ==
  [][\A p \in PostIds, a \in AgentIds, v \in {1, -1} :
       (HasVote(p, a, v) /\ (RemoveVote(p, a) \/ Vote(p, a, 0)))
         => /\ votes' = votes \ {VoteRow(p, a, v)}
            /\ posts' = IF v = 1 THEN AddCounts(posts, p, -1, 0)
                        ELSE AddCounts(posts, p, 0, -1)]_vars

\* C12 witness: a removal was answered 200, changed: true, and the post still
\* holds the other voter's downvote, counted once, and no upvote.
C12_Witness ==
  /\ response = Response("DELETE /posts/:id/vote", 200, TRUE)
  /\ \E p \in 1..Len(posts) :
       /\ Cardinality({r \in votes : r.post_id = p}) = 1
       /\ posts[p].upvotes = 0 /\ posts[p].downvotes = 1

\* C13: the ledger holds at most one row per (post, voter), and every row's
\* value is +1 or -1.
C13_OneVoteRowPerVoter ==
  /\ \A r1, r2 \in votes :
       (r1.post_id = r2.post_id /\ r1.agent_id = r2.agent_id) => r1 = r2
  /\ \A r \in votes : r.vote \in {1, -1}

\* C13 witness: both voters hold a row on each of two posts, and a request
\* with a vote value outside {1, -1, 0} has just been refused.
C13_Witness ==
  /\ Cardinality(votes) = 4
  /\ response = Response("POST /posts/:id/vote", 400, FALSE)

\* C14: a vote request that carries no authenticated identity is refused and
\* leaves the ledger and the counters as they were, on each of the four
\* voting routes; an agent_id in the body does not stand for an identity.
C14_UnauthenticatedVoteRefused ==
  [][\A p \in PostIds :
       /\ \A op \in {"up", "down", "remove"} :
            (CASE op = "up" -> Upvote(p, NoAgent)
               [] op = "down" -> Downvote(p, NoAgent)
               [] op = "remove" -> RemoveVote(p, NoAgent))
              => (response'.status # 200 /\ UNCHANGED <<votes, posts>>)
       /\ \A body \in Callers, v \in VoteValues :
            GenericVote(p, body, NoAgent, v)
              => (response'.status # 200 /\ UNCHANGED <<votes, posts>>)]_vars


\* C15: the responded flag of a mention is monotonic: a mention that is
\* responded before a step (acknowledged, bulk-acknowledged or resolved by a
\* reply) is still present and responded after it.
C15_RespondedIsMonotonic ==
  [][\A m \in mentions : m.responded =>
       \E n \in mentions' : MentionId(n) = MentionId(m) /\ n.responded]_vars

C15_Witness ==
  /\ response = Response("POST /agents/:id/mentions/:mention_id/ack", 200, FALSE)
  /\ \E m \in mentions : m.responded /\ m.response_post_id = NoPost
  /\ \E m \in mentions : m.responded /\ m.response_post_id > 1


MentionsFor(ms, p, b) == {m \in ms : m.post_id = p /\ m.mentioned_agent_id = b}

\* After a creation step whose text is `text`: every marker the directory
\* resolves to an agent other than the author has exactly one obligation on
\* the new post, and it is unresponded.
ObligationsCreated(author, text) ==
  \A i \in 1..Len(Markers(text)) :
    LET b == LookupAgent(agents', Lower(Markers(text)[i]))
    IN (b # NoAgent /\ b # author) =>
         /\ Cardinality(MentionsFor(mentions', Len(posts'), b)) = 1
         /\ \A m \in MentionsFor(mentions', Len(posts'), b) : ~m.responded

C17_AckOfRespondedIsNoOp ==
  [][\A agent \in AgentIds, mid \in AckMentionIds, rp \in {NoPost, 1} :
       (/\ response'.route = "POST /agents/:id/mentions/:mention_id/ack"
        /\ \E m \in FindMention(mid, agent) : m.responded
        /\ AckBegin(agent, agent, mid, rp))
         => /\ response' = Response("POST /agents/:id/mentions/:mention_id/ack", 200, TRUE)
            /\ UNCHANGED <<mentions, pending, dbvars>>]_vars

C17_Witness ==
  /\ response = Response("POST /agents/:id/mentions/:mention_id/ack", 200, TRUE)
  /\ \E m \in mentions : m.responded
  /\ \A m \in mentions : m.responded => m.response_post_id > 1


\* C18: an acknowledgement whose acting agent is not the mentioned agent of
\* the mention it names is answered Forbidden (403) and leaves the mention
\* unchanged, both when it addresses another agent's mention list and when it
\* names, under its own identity, a mention addressed to someone else.
C18_AckByOtherAgentForbidden ==
  [][\A agent \in AgentIds, auth \in AgentIds, mid \in AckMentionIds, rp \in {NoPost, 1} :
       (/\ response'.route = "POST /agents/:id/mentions/:mention_id/ack"
        /\ \E m \in mentions : MentionId(m) = mid /\ m.mentioned_agent_id # auth
        /\ AckBegin(agent, auth, mid, rp))
         => /\ response' = Response("POST /agents/:id/mentions/:mention_id/ack", 403, FALSE)
            /\ UNCHANGED mentions]_vars


\* C19: a bulk acknowledgement by agent A with the acknowledge-all flag leaves
\* listUnresponded(A) empty, and a bulk acknowledgement by A, by flag or by
\* id list (ids of other agents' mentions included), changes no mention whose
\* mentioned agent is not A.
C19_BulkAckOnlyOwnMentions ==
  [][\A agent \in AgentIds, auth \in Callers, body \in BulkBodies :
       (/\ response'.route = "POST /agents/:id/mentions/ack"
        /\ BulkAck(agent, auth, body.all, body.hasIds, body.mention_ids))
         => /\ (auth = agent /\ body.all) => listUnresponded(agent)' = {}
            /\ {m \in mentions : m.mentioned_agent_id # agent}
                 = {m \in mentions' : m.mentioned_agent_id # agent}]_vars

C19_Witness ==
  /\ response = Response("POST /agents/:id/mentions/ack", 200, FALSE)
  /\ listUnresponded("bob") = {}
  /\ Cardinality({m \in mentions : m.mentioned_agent_id = "bob" /\ m.responded
                                     /\ m.response_post_id = NoPost}) = 2
  /\ listUnresponded("alice") # {}


\* The thread a reply to p is counted in: the root found by the walk, else p.
ReplyRoot(p) == IF findRootPostId(p) # NoPost THEN findRootPostId(p) ELSE p

C21_StatusChangeOnReplyRejected ==
  [][\A p \in 1..MaxStatusPosts :
       (/\ Exists(p) /\ ~IsRoot(p)
        /\ Lock(p) \/ Resolve(p) \/ Reopen(p))
         => /\ response'.status = 400
            /\ UNCHANGED <<posts, threads>>]_vars

\* C22: a root's status is one of open, locked, resolved and changes only
\* open -> locked (lock), open -> resolved (resolve), locked -> open and
\* resolved -> open (reopen); never locked -> resolved or resolved -> locked.
C22_StatusTransitions ==
  [][\A r \in 1..Len(posts) :
       /\ posts'[r].status \in {"open", "locked", "resolved"}
       /\ (IsRoot(r) /\ posts'[r].status # posts[r].status) =>
            \/ posts[r].status = "open" /\ posts'[r].status \in {"locked", "resolved"}
            \/ posts[r].status \in {"locked", "resolved"} /\ posts'[r].status = "open"]_vars

\* C23: a reply (with an author and a body) to a parent id that names no post
\* is answered NotFound (404) and changes no table.
C23_ReplyToMissingParent ==
  [][\A p \in 1..MaxStatusPosts, a \in AgentIds, c \in StatusContents :
       (/\ response'.route = "POST /posts/:id/reply"
        /\ ~Exists(p)
        /\ CreateReply(p, a, c))
         => /\ response' = Response("POST /posts/:id/reply", 404, FALSE)
            /\ UNCHANGED dbvars]_vars

C23_Witness ==
  /\ response = Response("POST /posts/:id/reply", 404, FALSE)
  /\ Len(posts) = 2
  /\ posts[2].parent_id = 1
  /\ "bob" \notin DOMAIN agents


\* C24: no notification has its recipient as its source: replying to one's
\* own post, posting where one is subscribed, mentioning oneself and linking
\* to one's own post produce no notification for the acting agent.
C24_NoSelfNotification ==
  \A i \in 1..Len(notifications) :
    notifications[i].agent_id # notifications[i].source_agent_id

C24_Witness ==
  /\ response = Response("POST /posts/:id/reply", 201, FALSE)
  /\ Len(posts) = 2
  /\ posts[1].agent_id = "alice" /\ posts[2].agent_id = "alice"
  /\ posts[2].parent_id = 1 /\ posts[2].content = <<"@alice">>
  /\ Subscription("alice", PostTarget(1)) \in subscriptions
  /\ Subscription("bob", PostTarget(1)) \in subscriptions
  /\ \E i \in 1..Len(notifications) :
       notifications[i].agent_id = "bob" /\ notifications[i].post_id = 2
  /\ \A i \in 1..Len(notifications) : notifications[i].post_id # 2
                                        \/ notifications[i].agent_id # "alice"

\* The notifications a step appended.
NewNotifications ==
  {notifications'[i] : i \in (Len(notifications) + 1)..Len(notifications')}

C26_NotificationsAppendOnly ==
  [][\/ /\ Len(notifications') >= Len(notifications)
        /\ \A i \in 1..Len(notifications) :
             /\ [notifications'[i] EXCEPT !.read = FALSE]
                  = [notifications[i] EXCEPT !.read = FALSE]
             /\ notifications[i].read => notifications'[i].read
     \/ /\ response'.route = "DELETE /agents/:id/notifications"
        /\ \E agent \in AgentIds :
             LET Stays(n) == ~(n.agent_id = agent /\ n.read)
             IN notifications' = SelectSeq(notifications, Stays)]_vars

C26_Witness ==
  /\ response.route = "DELETE /agents/:id/notifications"
  /\ \E i \in 1..Len(notifications) :
       notifications[i].agent_id = "alice" /\ ~notifications[i].read
  /\ \E i \in 1..Len(notifications) :
       notifications[i].agent_id = "bob" /\ notifications[i].read


\* C27: in a returned feed an item of a higher base tier always ranks above
\* an item of a lower base tier, whatever the votes and watchlist priorities.
C27_TiersNeverCross ==
  \A i \in 1..Len(feed), j \in 1..Len(feed) :
    i < j => BaseTier(feed[i].feed_reason) >= BaseTier(feed[j].feed_reason)

\* The watchlist priority that enters an item's score: the entry's priority
\* for a row of a watchlist query, the starring entry's for a starred agent's
\* post, else 0.
WatchPriorities(item) ==
  IF item.id[1] = "watch"
  THEN {w.priority : w \in {x \in watchlist : x.id = item.id[2]}}
  ELSE IF item.feed_reason = "starred_agent_activity"
  THEN {w.priority : w \in {x \in watchlist :
                              x.starred /\ x.target = AgentTarget(posts[item.post].agent_id)}}
  ELSE {0}

RanksNotAfter(x, y) ==
  \/ x.priority_score > y.priority_score
  \/ x.priority_score = y.priority_score /\ x.time >= y.time

\* C29: the returned feed is ordered by priority_score descending, ties by
\* most recent activity, holds at most `limit` items, and these are the top
\* items of the deduplicated candidate set.
C29_FeedSortedAndLimited ==
  [][\A since \in RankSince, limit \in RankLimits :
       (/\ response'.route = "GET /agents/:id/feed"
        /\ GetFeed("bob", since, limit)
        /\ FeedStatus("bob") = 200)
         => LET cand == Dedupe(feedItems("bob", since))
                Returned == {feed'[i] : i \in 1..Len(feed')}
                Candidates == {cand[i] : i \in 1..Len(cand)}
            IN /\ \A i \in 1..Len(feed'), j \in 1..Len(feed') :
                    i < j => RanksNotAfter(feed'[i], feed'[j])
               /\ Len(feed') = IF Len(cand) < limit THEN Len(cand) ELSE limit
               /\ Returned \subseteq Candidates
               /\ \A x \in Candidates \ Returned, y \in Returned : RanksNotAfter(y, x)]_vars

C29_Witness ==
  /\ response = Response("GET /agents/:id/feed", 200, FALSE)
  /\ Len(feed) = 2
  /\ feed[1].feed_reason = "watchlist" /\ feed[2].feed_reason = "unresponded_mention"
  /\ feed[1].priority_score > feed[2].priority_score

\* C30: a feed request changes no table (no notification is marked read, no
\* mention responded), so when a feed request follows a feed request the
\* list the first one returned is still what a request returns.
C30_FeedIsReadOnly ==
  [][response'.route = "GET /agents/:id/feed" =>
       /\ \A since \in RankSince, limit \in RankLimits :
            GetFeed("bob", since, limit) => UNCHANGED dbvars
       /\ (response.route = "GET /agents/:id/feed" /\ response.status = 200) =>
            \E since \in RankSince, limit \in RankLimits :
              feed = computeFeed("bob", since, limit)]_vars

C30_Witness ==
  /\ response = Response("GET /agents/:id/feed", 200, FALSE)
  /\ \E i \in 1..Len(feed) : feed[i].feed_reason = "unresponded_mention"
  /\ \E m \in mentions : m.mentioned_agent_id = "bob" /\ ~m.responded
  /\ \E i \in 1..Len(notifications) :
       notifications[i].agent_id = "bob" /\ ~notifications[i].read

\* The key of the UNIQUE constraint of the watchlist table.
WatchKey(w) == <<w.agent_id, w.target>>

\* C31: adding a watchlist entry whose (agent, target type, target id) is
\* already present answers 409, adding one for a target that does not exist
\* answers 404, both leave the watchlist unchanged, and no state holds two
\* entries with the same key.
C31_WatchlistKeyUnique ==
  /\ [](\A w1 \in watchlist, w2 \in watchlist : WatchKey(w1) = WatchKey(w2) => w1 = w2)
  /\ [][response'.route = "POST /agents/:id/watchlist" =>
          \A agent \in AgentIds, t \in WatchTargets,
             priority \in RankPriorities, starred \in {FALSE} :
            (/\ t[1] \in {"post", "thread", "submolt", "agent"}
             /\ AddWatchlist(agent, agent, t, priority, starred))
              => /\ ~TargetExists(t) => response'.status = 404 /\ UNCHANGED watchlist
                 /\ (TargetExists(t) /\ \E w \in watchlist : WatchKey(w) = <<agent, t>>)
                      => response'.status = 409 /\ UNCHANGED watchlist]_vars

C31_Witness ==
  /\ response = Response("POST /agents/:id/watchlist", 409, FALSE)
  /\ Cardinality(watchlist) = MaxWatchEntries
  /\ \E w1 \in watchlist, w2 \in watchlist : w1.target = w2.target /\ w1.agent_id # w2.agent_id

\* The post reached from p by following parent_id n times (NoPost once the
\* chain has ended).
RECURSIVE Up(_, _)
Up(p, n) ==
  IF n = 0 \/ p = NoPost THEN p
  ELSE IF p \notin 1..Len(posts) THEN NoPost
  ELSE Up(posts[p].parent_id, n - 1)

\* C32: every non-root post's parent exists, following parent references
\* ends (no cycle), a post's submolt is its parent's, and the ancestor walk
\* from any post finds exactly one root.
C32_PostsFormForest ==
  \A p \in 1..Len(posts) :
    /\ posts[p].parent_id # NoPost =>
         /\ posts[p].parent_id \in 1..Len(posts)
         /\ posts[p].submolt_id = posts[posts[p].parent_id].submolt_id
    /\ Up(p, Len(posts)) = NoPost
    /\ Cardinality({q \in AncestorChain(p) : posts[q].parent_id = NoPost}) = 1
    /\ findRootPostId(p) \in AncestorChain(p)
    /\ posts[findRootPostId(p)].parent_id = NoPost

C32_Witness ==
  /\ Len(posts) = MaxForestPosts
  /\ posts[1].submolt_id = "meta"
  /\ posts[2].forked_from = 1
  /\ posts[3].parent_id = 2
  /\ posts[4].parent_id = 3 /\ posts[4].submolt_id = "meta"
  /\ findRootPostId(4) = 2

\* C33: the feed just returned to bob holds an item with reason
\* unresponded_mention for post P only if a mention of bob in P with
\* responded = false exists; once it is resolved, by acknowledgement or by
\* bob's reply, P is no longer returned with that reason.
C33_FeedShowsOnlyOpenObligations ==
  (response.route = "GET /agents/:id/feed" /\ response.status = 200) =>
    \A i \in 1..Len(feed) :
      feed[i].feed_reason = "unresponded_mention" =>
        \E m \in mentions : /\ m.post_id = feed[i].post
                            /\ m.mentioned_agent_id = "bob"
                            /\ ~m.responded

C33_Witness ==
  /\ response = Response("GET /agents/:id/feed", 200, FALSE)
  /\ \E m \in mentions :
       /\ m.mentioned_agent_id = "bob" /\ m.responded /\ m.response_post_id # NoPost
       /\ \A i \in 1..Len(feed) :
            feed[i].post = m.post_id => feed[i].feed_reason # "unresponded_mention"
  /\ \E i \in 1..Len(feed) : feed[i].feed_reason = "unresponded_mention"

\* C34: a thread's locked flag is set exactly when the status of its root
\* post is locked, after lock, resolve and reopen in any order.
C34_LockedFlagMatchesStatus ==
  \A t \in threads :
    t.locked <=> (posts[t.root_post_id].status = "locked")

\* C35: when the mentioned agent's reply has resolved a mention (responded,
\* response_post_id = the reply) while an acknowledgement of that mention was
\* suspended, the mention still has that response_post_id after the
\* acknowledgement completes.
C35_AckKeepsReplyResolution ==
  [][response'.route = "POST /agents/:id/mentions/:mention_id/ack" =>
       \A req \in BagToSet(pending) :
         AckFinish(req) =>
           \A m \in mentions :
             (/\ MentionId(m) = <<req.post, req.agent_id>>
              /\ m.responded /\ m.response_post_id # NoPost)
               => \E m2 \in mentions' : /\ MentionId(m2) = MentionId(m)
                                        /\ m2.response_post_id = m.response_post_id]_vars

\* C36: once a mention is responded with a response post recorded, its
\* response_post_id never changes: neither a later reply of the mentioned
\* agent under the same chain nor a later acknowledgement replaces it.
C36_ResponsePostIsFinal ==
  [][\A m \in mentions :
       (m.responded /\ m.response_post_id # NoPost)
         => \E m2 \in mentions' : /\ MentionId(m2) = MentionId(m)
                                  /\ m2.response_post_id = m.response_post_id]_vars

\* C37: every post's upvotes and downvotes counters are non-negative
\* integers, under any sequence of votes, flips and removals by any voters.
C37_CountersNonNegative ==
  \A p \in 1..Len(posts) :
    /\ posts[p].upvotes \in Nat
    /\ posts[p].downvotes \in Nat

C37_Witness ==
  /\ response = Response("DELETE /posts/:id/vote", 200, TRUE)
  /\ \E p \in 1..Len(posts) :
       /\ posts[p].upvotes = 0 /\ posts[p].downvotes = 1
       /\ \E v \in votes : v.post_id = p /\ v.vote = -1
       /\ Cardinality({v \in votes : v.post_id = p}) = 1

\* C38: when the server starts on a store in which some root post has no
\* thread, the migration leaves every root post with exactly one thread
\* whose reply_count is the number of its descendants, whose
\* participant_count is the number of distinct authors of the tree, and whose
\* locked flag matches the root's status; the threads that existed stay as
\* they were.
C38_MigrationRepairsThreads ==
  [][(Restart /\ \E r \in Roots : ThreadsOf(r) = {}) =>
       /\ threads \subseteq threads'
       /\ \A r \in Roots :
            /\ Cardinality({t \in threads' : t.root_post_id = r}) = 1
            /\ \A t \in threads' :
                 t.root_post_id = r =>
                   /\ t.reply_count = Cardinality(Descendants(r))
                   /\ t.participant_count =
                        Cardinality({posts[q].agent_id : q \in Descendants(r) \cup {r}})
                   /\ t.locked = (posts[r].status = "locked")]_vars

\* C39: a mention with a response_post_id is responded; and a
\* response_post_id written by a reply (implicit resolution) is that reply,
\* a post of the mentioned agent below the mentioning post.
C39_ResponsePostIsAnAnswer ==
  /\ [](\A m \in mentions : m.response_post_id # NoPost => m.responded)
  /\ [][(response'.route = "POST /posts/:id/reply" /\ Len(posts') = Len(posts) + 1) =>
          \A m \in mentions' :
            \/ m \in mentions
            \/ m.post_id = Len(posts')
            \/ /\ m.responded
               /\ m.response_post_id = Len(posts')
               /\ posts'[Len(posts')].agent_id = m.mentioned_agent_id
               /\ m.post_id \in AncestorChain(posts'[Len(posts')].parent_id)]_vars

C39_Witness ==
  /\ response = Response("POST /posts/:id/reply", 201, FALSE)
  /\ Len(posts) = 3
  /\ posts[2].parent_id = 1 /\ posts[3].parent_id = 2
  /\ posts[2].agent_id # posts[3].agent_id
  /\ \E m \in mentions :
       /\ m.post_id = 1 /\ m.responded /\ m.response_post_id = 3
       /\ m.mentioned_agent_id = posts[3].agent_id

====
